---- MODULE Spec2Model ----
(***************************************************************************)
(* A model of notebooks/example_recsys_runner.py: the driver routine main  *)
(* (run by one or several processes that share the output directory), its  *)
(* local helper get_files, and the class DataLoaderWithLen.                *)
(*                                                                         *)
(* Calls into the external libraries (HfArgumentParser, petastorm,         *)
(* XLNetLMHeadModel, RecSysTrainer) are modelled as calls that return      *)
(* normally; what they return or write is chosen nondeterministically      *)
(* where the driver's behaviour can depend on it.                          *)
(***************************************************************************)
EXTENDS Integers, Sequences, FiniteSets, TLC

VARIABLES
    argv,             \* the command line: the flags every process parses
    outDir,           \* the shared output directory: [exists, entries]
    isMaster,         \* per process: what trainer.is_world_master() returns
    listing,          \* the data file system: directory |-> its entries, in scandir order
    pc,               \* per process: position in main
    err,              \* per process: the exception main ended with, or None
    trace,            \* per process: the calls main has made so far, in order
    args,             \* per process: (model_args, training_args) once parsed
    data_path,        \* per process: [train, eval] file lists after get_files
    loaders,          \* per process: [train, eval] DataLoaderWithLen objects
    model,            \* per process: the model object
    trainer,          \* per process: the trainer object
    model_path,       \* per process: the model_path argument given to trainer.train
    results,          \* per process: the results mapping (the set of its keys)
    wrote,            \* per process: entries of outDir this process created or modified
    data_paths,       \* get_files harness: the argument
    gf_result,        \* get_files harness: the value returned
    ldr,              \* DataLoaderWithLen harness: what the constructor gave
    ldr_kwargs,       \* DataLoaderWithLen harness: the keyword arguments of the constructor
    reader_left       \* DataLoaderWithLen harness: batches the reader still yields

vars == <<argv, outDir, isMaster, listing, pc, err, trace, args, data_path, loaders,
          model, trainer, model_path, results, wrote, data_paths, gf_result,
          ldr, ldr_kwargs, reader_left>>

mainVars == <<argv, outDir, isMaster, pc, err, trace, args, data_path, loaders,
              model, trainer, model_path, results, wrote>>
gfVars == <<data_paths, gf_result>>
ldrVars == <<ldr, ldr_kwargs, reader_left>>

None == "None"
Unset == "Unset"

\* a Python name before its assignment, and after it
Unbound == [bound |-> FALSE]
Bound(v) == [bound |-> TRUE, value |-> v]

(***************************************************************************)
(* Bounds                                                                  *)
(***************************************************************************)
NumProcs == 2        \* processes running main against the same output directory
MaxPaths == 2        \* longest data_paths list handed to get_files
MaxLen == 2          \* largest small 'len' keyword tried besides the two of main
MaxBatches == 3      \* most batches the underlying reader yields

Procs == 1..NumProcs

(***************************************************************************)
(* Program constants                                                       *)
(***************************************************************************)
TRAIN_DATA_LEN == 10000
EVAL_DATA_LEN == 10000

d_path == "~/dataset/ecommerce_preproc_Oct_01-10_2019.parquet/"
TrainDataPath == <<"~/dataset/20200617044630-appid-local-1592357472062-5618370f-419b-4421-be76-1ef1bc3df293/">>
EvalDataPath == <<d_path \o "session_start_date=2019-10-04">>

recsys_schema_small == "recsys_schema_small"
recsys_schema_full == "recsys_schema_full"
XLNetConfigHardCoded == "XLNetConfig(product_vocab_size=300000, ..., dropout=0.1)"

(***************************************************************************)
(* String helpers (Python str methods used by os.path and fnmatch)         *)
(***************************************************************************)
EndsWith(s, suf) ==
    Len(s) >= Len(suf) /\ SubSeq(s, Len(s) - Len(suf) + 1, Len(s)) = suf

StartsWith(s, pre) ==
    Len(s) >= Len(pre) /\ SubSeq(s, 1, Len(pre)) = pre

RECURSIVE RStripSlash(_)
RStripSlash(s) ==
    IF Len(s) > 0 /\ SubSeq(s, Len(s), Len(s)) = "/"
    THEN RStripSlash(SubSeq(s, 1, Len(s) - 1))
    ELSE s

\* index of the last "/" of s, 0 when there is none (str.rfind, 1-based)
RECURSIVE RFindSlash(_, _)
RFindSlash(s, i) ==
    IF i = 0 THEN 0
    ELSE IF SubSeq(s, i, i) = "/" THEN i
    ELSE RFindSlash(s, i - 1)

\* posixpath.split(p): (head, tail) around the last "/", head without its
\* trailing slashes unless it consists of slashes only
PathSplitHead(p) ==
    LET i == RFindSlash(p, Len(p))
        head == SubSeq(p, 1, i)
    IN  IF head # "" /\ RStripSlash(head) # "" THEN RStripSlash(head) ELSE head

PathSplitTail(p) ==
    SubSeq(p, RFindSlash(p, Len(p)) + 1, Len(p))

\* posixpath.join(a, b)
PathJoin(a, b) ==
    IF StartsWith(b, "/") THEN b
    ELSE IF a = "" \/ EndsWith(a, "/") THEN a \o b
    ELSE a \o "/" \o b

\* glob._ishidden
IsHidden(name) == StartsWith(name, ".")

\* fnmatch for the patterns of the form "*<suffix>", the only ones main builds
FnMatch(name, pat) ==
    /\ StartsWith(pat, "*")
    /\ EndsWith(name, SubSeq(pat, 2, Len(pat)))

\* os.scandir(dirname) as glob._iterdir uses it: a directory that does not
\* exist (or cannot be read) lists nothing and raises nothing
ScanDir(dirname) ==
    IF dirname \in DOMAIN listing /\ listing[dirname].exists
    THEN listing[dirname].names
    ELSE <<>>

\* glob.glob(pathname) for a pathname whose directory part has no wildcard
Glob(pathname) ==
    LET dirname == PathSplitHead(pathname)
        pattern == PathSplitTail(pathname)
        Visible(n) == IsHidden(pattern) \/ ~IsHidden(n)
        Match(n) == Visible(n) /\ FnMatch(n, pattern)
        names == SelectSeq(ScanDir(dirname), Match)
    IN  [i \in 1..Len(names) |-> PathJoin(dirname, names[i])]

\* a flattening that walks the per-path lists last to first
RECURSIVE ChainFromIterable_Reversed(_)
ChainFromIterable_Reversed(lists) ==
    IF lists = <<>> THEN <<>>
    ELSE ChainFromIterable_Reversed(Tail(lists)) \o Head(lists)

\* itertools.chain.from_iterable over a list of lists, made a list
RECURSIVE ChainFromIterable(_)
ChainFromIterable(lists) ==
    IF lists = <<>> THEN <<>>
    ELSE Head(lists) \o ChainFromIterable(Tail(lists))

get_files_inner(path) ==
    LET g == Glob(path \o "/*.parquet")
    IN  [i \in 1..Len(g) |-> "file://" \o g[i]]

get_files(paths_arg) ==
    ChainFromIterable([k \in 1..Len(paths_arg) |-> get_files_inner(paths_arg[k])])

(***************************************************************************)
(* The get_files harness: the helper applied to any list of data paths     *)
(* over any of the bounded file systems.                                   *)
(***************************************************************************)
DataDirArgs == {TrainDataPath[1], EvalDataPath[1], "data"}
DataDirs == {RStripSlash(d) : d \in DataDirArgs}

NoDir == [exists |-> FALSE, names |-> <<>>]
Dir(names) == [exists |-> TRUE, names |-> names]

Listings == { NoDir,
              Dir(<<>>),
              Dir(<<"part-1.parquet", "part-0.parquet">>),
              Dir(<<"_SUCCESS", "part-0.parquet", ".part-0.parquet.crc", ".hidden.parquet">>) }

RECURSIVE SeqsUpTo(_, _)
SeqsUpTo(S, n) ==
    IF n = 0 THEN {<<>>}
    ELSE LET shorter == SeqsUpTo(S, n - 1)
         IN  shorter \cup {Append(q, x) : q \in shorter, x \in S}

MainIdle ==
    /\ argv = Unbound
    /\ outDir = Unbound
    /\ isMaster = [p \in Procs |-> FALSE]
    /\ pc = [p \in Procs |-> "idle"]
    /\ err = [p \in Procs |-> None]
    /\ trace = [p \in Procs |-> <<>>]
    /\ args = [p \in Procs |-> Unbound]
    /\ data_path = [p \in Procs |-> Unbound]
    /\ loaders = [p \in Procs |-> Unbound]
    /\ model = [p \in Procs |-> Unbound]
    /\ trainer = [p \in Procs |-> Unbound]
    /\ model_path = [p \in Procs |-> Unset]
    /\ results = [p \in Procs |-> Unbound]
    /\ wrote = [p \in Procs |-> {}]

LdrIdle ==
    /\ ldr = Unbound
    /\ ldr_kwargs = <<>>
    /\ reader_left = 0

GfIdle ==
    /\ data_paths = <<>>
    /\ gf_result = Unbound

InitGetFiles ==
    /\ MainIdle
    /\ LdrIdle
    /\ listing \in [DataDirs -> Listings]
    /\ data_paths \in SeqsUpTo(DataDirArgs, MaxPaths)
    /\ gf_result = Unbound

CallGetFiles ==
    /\ gf_result = Unbound
    /\ gf_result' = Bound(get_files(data_paths))
    /\ UNCHANGED <<data_paths, listing>>
    /\ UNCHANGED mainVars
    /\ UNCHANGED ldrVars

NextGetFiles == CallGetFiles

SpecGetFiles == InitGetFiles /\ [][NextGetFiles]_vars

(***************************************************************************)
(* class DataLoaderWithLen(DataLoader)                                     *)
(***************************************************************************)
\* the keyword parameters petastorm.pytorch.DataLoader.__init__ accepts
DataLoaderKeywords == {"batch_size", "collate_fn", "shuffling_queue_capacity"}

\* dict.pop(key): the mapping without the key
Pop(kwargs, key) == [k \in (DOMAIN kwargs) \ {key} |-> kwargs[k]]

\* DataLoader.__init__(reader, **kwargs): an unknown keyword is a TypeError
DataLoader_init(reader, kwargs) ==
    IF DOMAIN kwargs \subseteq DataLoaderKeywords
    THEN [error |-> None, reader |-> reader, base_kwargs |-> kwargs, consumed |-> 0]
    ELSE [error |-> "TypeError"]

\* DataLoaderWithLen.__init__(reader, **kwargs)
DataLoaderWithLen_init(reader, kwargs) ==
    IF "len" \notin DOMAIN kwargs
    THEN [error |-> "KeyError"]
    ELSE LET base == DataLoader_init(reader, Pop(kwargs, "len"))
         IN  IF base.error # None THEN base
             ELSE [base EXCEPT !.error = None] @@ [len |-> kwargs["len"]]

\* a length that counts down as batches are handed out
DataLoaderWithLen_len_Remaining(self) == self.len - self.consumed

\* DataLoaderWithLen.__len__(self)
DataLoaderWithLen_len(self) == self.len

\* petastorm.make_batch_reader(paths, num_epochs=None, schema_fields=...)
make_batch_reader(paths, schema) ==
    [dataset_url |-> paths, num_epochs |-> None, schema_fields |-> schema]

\* the keyword arguments main gives the two loaders
TrainLoaderKwargs(training_args) ==
    [k \in {"batch_size", "len"} |->
        IF k = "len" THEN TRAIN_DATA_LEN ELSE training_args.per_device_train_batch_size]

EvalLoaderKwargs(training_args) ==
    [k \in {"batch_size", "len"} |->
        IF k = "len" THEN EVAL_DATA_LEN ELSE training_args.per_device_eval_batch_size]

(***************************************************************************)
(* main                                                                    *)
(***************************************************************************)
ModelNames == {None, "ckpt_dir", "xlnet-base-cased"}

\* directories of the file system besides the output directory
ExistingDirs == {"ckpt_dir"}

\* os.path.isdir
IsDir(path) == path \in ExistingDirs

Argvs ==
    [ do_train : BOOLEAN,
      do_eval : BOOLEAN,
      overwrite_output_dir : BOOLEAN,
      model_name_or_path : ModelNames,
      per_device_train_batch_size : {8},
      per_device_eval_batch_size : {8} ]

\* the output directory is missing, empty, or holds an earlier run's files
OutDirs ==
    { [exists |-> FALSE, entries |-> {}],
      [exists |-> TRUE, entries |-> {}],
      [exists |-> TRUE, entries |-> {"checkpoint-500"}] }

\* the data file system main runs over: the training directory holds two
\* partitions, the evaluation directory does not exist
MainListing ==
    [d \in DataDirs |->
        IF d = RStripSlash(TrainDataPath[1])
        THEN Dir(<<"part-1.parquet", "part-0.parquet">>)
        ELSE NoDir]

Init ==
    /\ argv \in Argvs
    /\ outDir \in OutDirs
    /\ isMaster \in [Procs -> BOOLEAN]
    /\ listing = MainListing
    /\ pc = [p \in Procs |-> "parse"]
    /\ err = [p \in Procs |-> None]
    /\ trace = [p \in Procs |-> <<>>]
    /\ args = [p \in Procs |-> Unbound]
    /\ data_path = [p \in Procs |-> Unbound]
    /\ loaders = [p \in Procs |-> Unbound]
    /\ model = [p \in Procs |-> Unbound]
    /\ trainer = [p \in Procs |-> Unbound]
    /\ model_path = [p \in Procs |-> Unset]
    /\ results = [p \in Procs |-> Unbound]
    /\ wrote = [p \in Procs |-> {}]
    /\ GfIdle
    /\ LdrIdle

Goto(p, label) == pc' = [pc EXCEPT ![p] = label]
Call(p, name) == trace' = [trace EXCEPT ![p] = Append(@, name)]
Raise(p, exc) ==
    /\ pc' = [pc EXCEPT ![p] = "error"]
    /\ err' = [err EXCEPT ![p] = exc]

\* lines 94-95: parser.parse_args_into_dataclasses()
Parse(p) ==
    /\ pc[p] = "parse"
    /\ args' = [args EXCEPT ![p] = Bound(argv)]
    /\ Call(p, "parse_args")
    /\ Goto(p, "guard")
    /\ UNCHANGED <<argv, outDir, isMaster, listing, err, data_path, loaders, model,
                   trainer, model_path, results, wrote>>
    /\ UNCHANGED gfVars
    /\ UNCHANGED ldrVars

\* the guard with the overwrite flag read the wrong way round
GuardCondition_OverwriteInverted(a) ==
    /\ outDir.exists
    /\ outDir.entries # {}
    /\ a.do_train
    /\ a.overwrite_output_dir

\* the guard without its do_train conjunct
GuardCondition_NoDoTrain(a) ==
    /\ outDir.exists
    /\ outDir.entries # {}
    /\ ~a.overwrite_output_dir

\* lines 97-102: the condition of the output-directory guard
GuardCondition(a) ==
    /\ outDir.exists
    /\ outDir.entries # {}
    /\ a.do_train
    /\ ~a.overwrite_output_dir

\* the guard placed after logging setup and set_seed
Guard_AfterSeed(p) ==
    /\ pc[p] = "guard"
    /\ Call(p, "set_seed")
    /\ IF GuardCondition(args[p].value)
       THEN Raise(p, "ValueError")
       ELSE Goto(p, "setup") /\ UNCHANGED err
    /\ UNCHANGED <<argv, outDir, isMaster, listing, args, data_path, loaders,
                   model, trainer, model_path, results, wrote>>
    /\ UNCHANGED gfVars
    /\ UNCHANGED ldrVars

\* lines 97-105
Guard(p) ==
    /\ pc[p] = "guard"
    /\ IF GuardCondition(args[p].value)
       THEN Raise(p, "ValueError")
       ELSE Goto(p, "setup") /\ UNCHANGED err
    /\ UNCHANGED <<argv, outDir, isMaster, listing, trace, args, data_path, loaders,
                   model, trainer, model_path, results, wrote>>
    /\ UNCHANGED gfVars
    /\ UNCHANGED ldrVars

\* lines 107-221: logging setup and set_seed, the data paths and get_files,
\* the schemas, and the two loaders
PrepareData(p) ==
    /\ pc[p] = "setup"
    /\ data_path' = [data_path EXCEPT ![p] =
            Bound([train |-> get_files(TrainDataPath), eval |-> get_files(EvalDataPath)])]
    /\ LET tl == DataLoaderWithLen_init(
                    make_batch_reader(data_path'[p].value.train, recsys_schema_small),
                    TrainLoaderKwargs(args[p].value))
           el == DataLoaderWithLen_init(
                    make_batch_reader(data_path'[p].value.eval, recsys_schema_full),
                    EvalLoaderKwargs(args[p].value))
       IN  IF tl.error # None
           THEN /\ Raise(p, tl.error)
                /\ trace' = [trace EXCEPT ![p] = @ \o <<"set_seed", "get_files">>]
                /\ UNCHANGED loaders
           ELSE IF el.error # None
           THEN /\ Raise(p, el.error)
                /\ trace' = [trace EXCEPT ![p] = @ \o <<"set_seed", "get_files">>]
                /\ UNCHANGED loaders
           ELSE /\ loaders' = [loaders EXCEPT ![p] = Bound([train |-> tl, eval |-> el])]
                /\ trace' = [trace EXCEPT ![p] =
                                 @ \o <<"set_seed", "get_files", "loaders">>]
                /\ Goto(p, "model")
                /\ UNCHANGED err
    /\ UNCHANGED <<argv, outDir, isMaster, listing, args,
                   model, trainer, model_path, results, wrote>>
    /\ UNCHANGED gfVars
    /\ UNCHANGED ldrVars

\* lines 223-248: the model is built from the hard-coded configuration; the
\* from_pretrained branch is commented out
BuildModel(p) ==
    /\ pc[p] = "model"
    /\ model' = [model EXCEPT ![p] =
            Bound([config |-> XLNetConfigHardCoded, weights |-> "from scratch"])]
    /\ Call(p, "model")
    /\ Goto(p, "trainer")
    /\ UNCHANGED <<argv, outDir, isMaster, listing, err, args, data_path, loaders,
                   trainer, model_path, results, wrote>>
    /\ UNCHANGED gfVars
    /\ UNCHANGED ldrVars

\* lines 250-254: the trainer holds references to the objects main built,
\* recorded by the names of the variables passed
BuildTrainer(p) ==
    /\ pc[p] = "trainer"
    /\ trainer' = [trainer EXCEPT ![p] =
            Bound([train_loader |-> "train_loader", eval_loader |-> "eval_loader",
                   model |-> "model", args |-> "training_args"])]
    /\ Call(p, "trainer")
    /\ Goto(p, "training")
    /\ UNCHANGED <<argv, outDir, isMaster, listing, err, args, data_path, loaders,
                   model, model_path, results, wrote>>
    /\ UNCHANGED gfVars
    /\ UNCHANGED ldrVars

\* model_path without the os.path.isdir test
ModelPath_NoIsDir(model_args) ==
    IF model_args.model_name_or_path # None
    THEN model_args.model_name_or_path
    ELSE None

\* lines 258-262: the model_path argument of trainer.train
ModelPath(model_args) ==
    IF model_args.model_name_or_path # None /\ IsDir(model_args.model_name_or_path)
    THEN model_args.model_name_or_path
    ELSE None

\* what trainer.save_model() leaves in the output directory: the trainer
\* decides whether this process writes (w)
TrainerWrites(p, entry, w) ==
    IF w
    THEN /\ outDir' = [exists |-> TRUE, entries |-> outDir.entries \cup {entry}]
         /\ wrote' = [wrote EXCEPT ![p] = @ \cup {entry}]
    ELSE UNCHANGED <<outDir, wrote>>

\* training that goes on without saving the model
Train_SkipsSave(p) ==
    /\ pc[p] = "training"
    /\ args[p].value.do_train
    /\ model_path' = [model_path EXCEPT ![p] = ModelPath(args[p].value)]
    /\ Call(p, "train")
    /\ Goto(p, "save_tokenizer")
    /\ UNCHANGED <<argv, outDir, isMaster, listing, err, args, data_path, loaders,
                   model, trainer, results, wrote>>
    /\ UNCHANGED gfVars
    /\ UNCHANGED ldrVars

\* lines 257-263: trainer.train(model_path=model_path)
Train(p) ==
    /\ pc[p] = "training"
    /\ args[p].value.do_train
    /\ model_path' = [model_path EXCEPT ![p] = ModelPath(args[p].value)]
    /\ Call(p, "train")
    /\ Goto(p, "save_model")
    /\ UNCHANGED <<argv, outDir, isMaster, listing, err, args, data_path, loaders,
                   model, trainer, results, wrote>>
    /\ UNCHANGED gfVars
    /\ UNCHANGED ldrVars

\* line 257, do_train unset
SkipTrain(p) ==
    /\ pc[p] = "training"
    /\ ~args[p].value.do_train
    /\ Goto(p, "evaluation")
    /\ UNCHANGED <<argv, outDir, isMaster, listing, err, trace, args, data_path,
                   loaders, model, trainer, model_path, results, wrote>>
    /\ UNCHANGED gfVars
    /\ UNCHANGED ldrVars

\* line 264: trainer.save_model()
SaveModel(p) ==
    /\ pc[p] = "save_model"
    /\ Call(p, "save_model")
    /\ \E w \in BOOLEAN : TrainerWrites(p, "pytorch_model.bin", w)
    /\ Goto(p, "save_tokenizer")
    /\ UNCHANGED <<argv, isMaster, listing, err, args, data_path, loaders,
                   model, trainer, model_path, results>>
    /\ UNCHANGED gfVars
    /\ UNCHANGED ldrVars

\* lines 267-268: main never binds the name tokenizer and the module has no
\* global of that name, so evaluating tokenizer.save_pretrained raises NameError
SaveTokenizer(p) ==
    /\ pc[p] = "save_tokenizer"
    /\ IF isMaster[p]
       THEN Raise(p, "NameError")
       ELSE Goto(p, "evaluation") /\ UNCHANGED err
    /\ UNCHANGED <<argv, outDir, isMaster, listing, trace, args, data_path, loaders,
                   model, trainer, model_path, results, wrote>>
    /\ UNCHANGED gfVars
    /\ UNCHANGED ldrVars

\* lines 271-288 with do_eval set: results = {}, trainer.evaluate(), then
\* math.exp(...): the module never imports math, so line 277 raises NameError
\* and lines 278-288 (the is_world_master test, the write of
\* eval_results_lm.txt, results.update) are never reached
Evaluate(p) ==
    /\ pc[p] = "evaluation"
    /\ args[p].value.do_eval
    /\ results' = [results EXCEPT ![p] = Bound({})]
    /\ Call(p, "evaluate")
    /\ Raise(p, "NameError")
    /\ UNCHANGED <<argv, outDir, isMaster, listing, args, data_path, loaders,
                   model, trainer, model_path, wrote>>
    /\ UNCHANGED gfVars
    /\ UNCHANGED ldrVars

\* lines 271-272 and 290 with do_eval unset: return the empty results
SkipEval(p) ==
    /\ pc[p] = "evaluation"
    /\ ~args[p].value.do_eval
    /\ results' = [results EXCEPT ![p] = Bound({})]
    /\ Goto(p, "done")
    /\ UNCHANGED <<argv, outDir, isMaster, listing, err, trace, args, data_path,
                   loaders, model, trainer, model_path, wrote>>
    /\ UNCHANGED gfVars
    /\ UNCHANGED ldrVars

Next ==
    \E p \in Procs :
        \/ Parse(p)
        \/ Guard(p)
        \/ PrepareData(p)
        \/ BuildModel(p)
        \/ BuildTrainer(p)
        \/ Train(p)
        \/ SkipTrain(p)
        \/ SaveModel(p)
        \/ SaveTokenizer(p)
        \/ Evaluate(p)
        \/ SkipEval(p)

Spec == Init /\ [][Next]_vars

(***************************************************************************)
(* The DataLoaderWithLen harness: one loader constructed with any of the   *)
(* bounded keyword sets (those of main among them) over a reader that      *)
(* yields any number of batches up to MaxBatches, then iterated.           *)
(***************************************************************************)
DefaultTrainingArgs ==
    [per_device_train_batch_size |-> 8, per_device_eval_batch_size |-> 8]

LoaderKwargs ==
    {[k \in {"batch_size", "len"} |-> IF k = "len" THEN l ELSE b] :
        l \in 0..MaxLen, b \in {1, 8}}
    \cup {[k \in {"len"} |-> l] : l \in 0..MaxLen}
    \cup {[k \in {"batch_size"} |-> 8]}
    \cup {TrainLoaderKwargs(DefaultTrainingArgs), EvalLoaderKwargs(DefaultTrainingArgs)}

InitLoader ==
    /\ MainIdle
    /\ GfIdle
    /\ listing = MainListing
    /\ ldr = Unbound
    /\ ldr_kwargs \in LoaderKwargs
    /\ reader_left \in 0..MaxBatches

\* DataLoaderWithLen(reader, **ldr_kwargs)
Construct ==
    /\ ldr = Unbound
    /\ ldr' = Bound(DataLoaderWithLen_init("reader", ldr_kwargs))
    /\ UNCHANGED <<ldr_kwargs, reader_left, listing>>
    /\ UNCHANGED mainVars
    /\ UNCHANGED gfVars

\* one step of iterating the loader: the inherited DataLoader.__iter__ hands
\* on the next batch of the reader
NextBatch ==
    /\ ldr.bound
    /\ ldr.value.error = None
    /\ reader_left > 0
    /\ ldr' = [ldr EXCEPT !.value.consumed = @ + 1]
    /\ reader_left' = reader_left - 1
    /\ UNCHANGED <<ldr_kwargs, listing>>
    /\ UNCHANGED mainVars
    /\ UNCHANGED gfVars

NextLoader == Construct \/ NextBatch

SpecLoader == InitLoader /\ [][NextLoader]_vars

(***************************************************************************)
(* get_files: properties                                                   *)
(***************************************************************************)
\* the "*.parquet" matches glob reports directly under the k-th data path
PathMatches(k) == Glob(data_paths[k] \o "/*.parquet")

\* the number of matches under the data paths before the k-th
RECURSIVE MatchesBefore(_)
MatchesBefore(k) ==
    IF k <= 1 THEN 0 ELSE MatchesBefore(k - 1) + Len(PathMatches(k - 1))

\* C8: the result of get_files is the concatenation, in the order of the
\* input paths, of each path's "*.parquet" matches in glob's order, each
\* prefixed with "file://": the i-th match of the k-th path sits at position
\* (matches under earlier paths) + i, nothing is dropped, merged or
\* reordered, and the length is the sum of the per-path match counts (zero
\* for a path without matches or that does not exist).
C8_GetFilesConcatenatesInOrder ==
    gf_result.bound =>
        /\ Len(gf_result.value) = MatchesBefore(Len(data_paths) + 1)
        /\ \A k \in 1..Len(data_paths) :
              \A i \in 1..Len(PathMatches(k)) :
                  gf_result.value[MatchesBefore(k) + i] = "file://" \o PathMatches(k)[i]
        /\ \A k \in 1..Len(data_paths) :
              ~listing[RStripSlash(data_paths[k])].exists => Len(PathMatches(k)) = 0

\* C8 witness: a populated directory named twice gives each of its two
\* matches twice, in the order of the paths
C8_Witness ==
    /\ gf_result.bound
    /\ Len(data_paths) = 2
    /\ RStripSlash(data_paths[1]) = RStripSlash(data_paths[2])
    /\ Len(gf_result.value) = 4
    /\ gf_result.value[1] = gf_result.value[3]
    /\ gf_result.value[1] # gf_result.value[2]

(***************************************************************************)
(* DataLoaderWithLen: properties                                           *)
(***************************************************************************)
\* C4: once constructed with a 'len' keyword, the loader's __len__ is
\* exactly that value in every state, before any batch, after each batch
\* and when the reader is exhausted, whatever number of batches the reader
\* yields; the 'len' keyword is not among the keywords the base DataLoader
\* received (all the others are, unchanged), so the base constructor does
\* not reject it; with the keywords main passes, the train loader's length
\* is TRAIN_DATA_LEN and the eval loader's EVAL_DATA_LEN.
C4_DeclaredLengthIsFixed ==
    (ldr.bound /\ "len" \in DOMAIN ldr_kwargs) =>
        /\ ldr.value.error = None
        /\ DataLoaderWithLen_len(ldr.value) = ldr_kwargs["len"]
        /\ "len" \notin DOMAIN ldr.value.base_kwargs
        /\ DOMAIN ldr.value.base_kwargs = (DOMAIN ldr_kwargs) \ {"len"}
        /\ \A k \in DOMAIN ldr.value.base_kwargs : ldr.value.base_kwargs[k] = ldr_kwargs[k]
        /\ ldr_kwargs = TrainLoaderKwargs(DefaultTrainingArgs)
              => DataLoaderWithLen_len(ldr.value) = TRAIN_DATA_LEN
        /\ ldr_kwargs = EvalLoaderKwargs(DefaultTrainingArgs)
              => DataLoaderWithLen_len(ldr.value) = EVAL_DATA_LEN

\* C4 witness: a loader declared with length 1 has handed out two batches,
\* the reader has one more, and the length is still 1
C4_Witness ==
    /\ ldr.bound
    /\ ldr.value.error = None
    /\ ldr_kwargs["len"] = 1
    /\ ldr.value.consumed = 2
    /\ reader_left = 1
    /\ DataLoaderWithLen_len(ldr.value) = 1

(***************************************************************************)
(* main: properties                                                        *)
(***************************************************************************)
Terminated(p) == pc[p] \in {"done", "error"}

\* main got past the guard without raising
PassedGuard(p) == pc[p] \notin {"parse", "guard"} /\ err[p] # "ValueError"

Called(p, name) == \E i \in 1..Len(trace[p]) : trace[p][i] = name

\* process p takes its guard step
GuardStep(p) == pc[p] = "guard" /\ pc'[p] # "guard"

GuardRaises(p) == pc'[p] = "error" /\ err'[p] = "ValueError"

ResultsFile == "eval_results_lm.txt"

\* C1 as stated: whenever the guard is evaluated with output_dir existing
\* and non-empty and overwrite_output_dir false, main ends with ValueError,
\* whatever do_train is.
C1_Original_GuardRejectsWhateverDoTrain ==
    [][\A p \in Procs :
          (GuardStep(p) /\ outDir.exists /\ outDir.entries # {}
              /\ ~args[p].value.overwrite_output_dir)
          => GuardRaises(p)]_vars

\* C1 amended: whenever the guard is evaluated with output_dir existing and
\* non-empty, do_train set and overwrite_output_dir false, main ends with
\* ValueError, whatever do_eval and the other flags are.
C1_GuardRejectsTrainingRun ==
    [][\A p \in Procs :
          (GuardStep(p) /\ outDir.exists /\ outDir.entries # {}
              /\ args[p].value.do_train /\ ~args[p].value.overwrite_output_dir)
          => GuardRaises(p)]_vars

\* C1 witness: a training run without do_eval ended with ValueError at the
\* guard
C1_Witness ==
    \E p \in Procs :
        /\ pc[p] = "error"
        /\ err[p] = "ValueError"
        /\ args[p].value.do_train
        /\ ~args[p].value.do_eval
        /\ ~args[p].value.overwrite_output_dir
        /\ outDir.entries # {}

\* C2: when the guard has raised, the process has done nothing but parse its
\* arguments: no set_seed, no get_files, no loader, model or trainer, no
\* train, save_model or evaluate call, no results, and it has created or
\* modified nothing in the output directory.
C2_GuardFailsBeforeAnythingElse ==
    \A p \in Procs :
        err[p] = "ValueError" =>
            /\ pc[p] = "error"
            /\ trace[p] = <<"parse_args">>
            /\ ~data_path[p].bound
            /\ ~loaders[p].bound
            /\ ~model[p].bound
            /\ ~trainer[p].bound
            /\ model_path[p] = Unset
            /\ ~results[p].bound
            /\ wrote[p] = {}

\* C2 witness: the guard raised in one process after another process of the
\* same invocation had already saved its model into the output directory
C2_Witness ==
    \E p, q \in Procs :
        /\ p # q
        /\ err[p] = "ValueError"
        /\ "pytorch_model.bin" \in wrote[q]
        /\ wrote[p] = {}

\* the position of a call in the driver's fixed order
StepOrder ==
    <<"parse_args", "set_seed", "get_files", "loaders", "model", "trainer",
      "train", "save_model", "evaluate">>

StepRank(name) == CHOOSE i \in 1..Len(StepOrder) : StepOrder[i] = name

\* C3: in every run the calls main has made so far appear in the driver's
\* fixed order, each at most once (parse, seed and globbing, loaders, model,
\* trainer, train, save_model, evaluate); a run past the guard that has
\* reached the training step has made the six construction calls exactly in
\* that order; and when do_train is set, evaluate is only called after
\* train and save_model have been.
C3_StepsInFixedOrder ==
    \A p \in Procs :
        /\ \A i \in 1..Len(trace[p]) : trace[p][i] \in {StepOrder[k] : k \in 1..Len(StepOrder)}
        /\ \A i, j \in 1..Len(trace[p]) :
              i < j => StepRank(trace[p][i]) < StepRank(trace[p][j])
        /\ (pc[p] \in {"training", "save_model", "save_tokenizer", "evaluation", "done"}
              \/ Called(p, "train") \/ Called(p, "evaluate"))
              => SubSeq(trace[p], 1, 6) = SubSeq(StepOrder, 1, 6)
        /\ (Called(p, "evaluate") /\ args[p].value.do_train)
              => (Called(p, "train") /\ Called(p, "save_model"))

\* C3 witness: a run with do_train and do_eval that has called everything,
\* evaluate last
C3_Witness ==
    \E p \in Procs :
        /\ args[p].bound
        /\ args[p].value.do_train
        /\ args[p].value.do_eval
        /\ trace[p] = StepOrder

\* C5: the guard's ValueError is the only exception main ends with, and a
\* run with do_eval that returns has 'perplexity' in its results.
C5_GuardIsTheOnlyError ==
    \A p \in Procs :
        /\ pc[p] = "error" => err[p] = "ValueError"
        /\ (Terminated(p) /\ PassedGuard(p)) => pc[p] = "done"
        /\ (pc[p] = "done" /\ args[p].value.do_eval) => "perplexity" \in results[p].value

\* C6: a run that got past the guard and has ended called train and
\* save_model iff do_train is set and evaluate iff do_eval is set; with
\* neither flag it built loaders, model and trainer, wrote no results file
\* and returned empty results.
C6_FlagsGateTrainerCalls ==
    \A p \in Procs :
        (Terminated(p) /\ PassedGuard(p)) =>
            /\ Called(p, "train") <=> args[p].value.do_train
            /\ Called(p, "save_model") <=> args[p].value.do_train
            /\ Called(p, "evaluate") <=> args[p].value.do_eval
            /\ (~args[p].value.do_train /\ ~args[p].value.do_eval) =>
                  /\ pc[p] = "done"
                  /\ results[p] = Bound({})
                  /\ ResultsFile \notin wrote[p]
                  /\ loaders[p].bound /\ model[p].bound /\ trainer[p].bound

\* C7: a process that has reached the evaluation step with do_eval and has
\* ended wrote eval_results_lm.txt iff is_world_master() is true for it,
\* and has 'perplexity' in its results whether master or not.
C7_OnlyMasterWritesResultsFile ==
    \A p \in Procs :
        (Terminated(p) /\ Called(p, "evaluate")) =>
            /\ (ResultsFile \in wrote[p]) <=> isMaster[p]
            /\ "perplexity" \in results[p].value

\* C9: the guard raises ValueError exactly when output_dir exists, has at
\* least one entry, do_train is set and overwrite_output_dir is not; in
\* every other case main goes on to logging setup.
C9_GuardRaisesExactlyOnFourConditions ==
    [][\A p \in Procs :
          GuardStep(p) =>
              LET four == /\ outDir.exists
                          /\ outDir.entries # {}
                          /\ args[p].value.do_train
                          /\ ~args[p].value.overwrite_output_dir
              IN  /\ GuardRaises(p) <=> four
                  /\ ~four => (pc'[p] = "setup" /\ err'[p] = None)]_vars

\* C9 witness: an evaluation-only run against a non-empty output directory,
\* without the overwrite flag, is past the guard
C9_Witness ==
    \E p \in Procs :
        /\ pc[p] = "setup"
        /\ err[p] = None
        /\ ~args[p].value.do_train
        /\ args[p].value.do_eval
        /\ ~args[p].value.overwrite_output_dir
        /\ outDir.exists
        /\ outDir.entries # {}

====
